---- MODULE Spec2Model ----
(***************************************************************************)
(* A model of the planning-and-scheduling engine of ai-team-planner:       *)
(* Scheduler (rescheduleTasks, findNextWorkingSlot, balanceWorkload), the  *)
(* AIPlanner (generatePlan, callGemini, validateAndRepairPlan, the         *)
(* fallback planner) and the HTTP handlers that call them.                 *)
(*                                                                         *)
(* Time is an instant counted in minutes from 00:00 of the day the request *)
(* is handled ("today", day 0).  dayjs reads hour() and day() of an        *)
(* instant in the server's zone; the model has one such zone and no        *)
(* daylight-saving shifts, so a day is 1440 minutes.  A timestamp that the *)
(* code carries as an ISO string (toISOString, then dayjs(str)) denotes    *)
(* the same instant, and the model carries the instant.                    *)
(***************************************************************************)
EXTENDS Integers, Sequences, FiniteSets, TLC

VARIABLES
    now,        \* dayjs(): minutes since today 00:00 when the call is made
    todayDow,   \* dayjs().day(): day of week of today, 0 = Sunday
    req,        \* the call being handled: its operation and its arguments
    phase,      \* where the call is: "idle", "awaiting", "done", "hung", ...
    result,     \* the subtasks the call returned
    status,     \* the HTTP status of the response, 0 while there is none
    report,     \* the feasibility report of the response, NoReport without one
    provider,   \* the Gemini configuration and what the provider did
    txn,        \* the rows written in the open transaction
    db          \* the committed rows of the tables

vars == <<now, todayDow, req, phase, result, status, report, provider, txn, db>>

----------------------------------------------------------------------------
(* Bounds of the model *)

MaxTasks == 2
MaxParts == 2
ManyParts == 5

----------------------------------------------------------------------------
(* dayjs arithmetic on instants *)

Max(a, b) == IF a >= b THEN a ELSE b

DayOf(t) == t \div 1440

\* dayjs#hour()
HourOf(t) == (t % 1440) \div 60

\* dayjs#day(), 0 = Sunday
DowOf(t) == (todayDow + DayOf(t)) % 7

\* dayjs#hour(h): sets the hour, keeps the minutes
SetHour(t, h) == DayOf(t) * 1440 + h * 60 + (t % 60)

\* dayjs#hour(h).minute(0).second(0)
AtHour(t, h) == DayOf(t) * 1440 + h * 60

\* dayjs#add(1, 'day')
AddDay(t) == t + 1440

\* dayjs().add(1, 'day').hour(startHour).minute(0).second(0)
TomorrowAt(h) == AtHour(AddDay(now), h)

NoSchedules == [m \in {} |-> 0]

SetSchedule(ms, m, t) == [x \in (DOMAIN ms) \cup {m} |-> IF x = m THEN t ELSE ms[x]]

----------------------------------------------------------------------------
(* Scheduler.rescheduleTasks and Scheduler.findNextWorkingSlot *)

BufferMinutes == 15

SortsBeforeShortestFirst(a, b) ==
    IF a.part # b.part THEN a.part < b.part
    ELSE a.estimatedMinutes < b.estimatedMinutes

\* the comparator of the sort: part ascending, then estimatedMinutes descending
SortsBefore(a, b) ==
    IF a.part # b.part THEN a.part < b.part
    ELSE a.estimatedMinutes > b.estimatedMinutes

\* Array.prototype.sort is stable: an element goes behind every element that
\* does not sort strictly after it
RECURSIVE InsertSorted(_, _)
InsertSorted(x, s) ==
    IF s = <<>> THEN <<x>>
    ELSE IF SortsBefore(x, Head(s)) THEN <<x>> \o s
    ELSE <<Head(s)>> \o InsertSorted(x, Tail(s))

RECURSIVE SortTasks(_)
SortTasks(s) ==
    IF s = <<>> THEN <<>>
    ELSE InsertSorted(s[Len(s)], SortTasks(SubSeq(s, 1, Len(s) - 1)))

\* "Ensure we're within working hours"
ClampToWorkingHours(slot, c) ==
    IF HourOf(slot) < c.startHour THEN AtHour(slot, c.startHour)
    ELSE IF HourOf(slot) >= c.endHour THEN AtHour(AddDay(slot), c.startHour)
    ELSE slot

\* "Ensure we're on a working day": the loop also stops at the due date
RECURSIVE AdvanceToWorkingDay(_, _, _)
AdvanceToWorkingDay(slot, dueDate, c) ==
    IF DowOf(slot) \notin c.daysOfWeek /\ slot < dueDate
    THEN AdvanceToWorkingDay(AtHour(AddDay(slot), c.startHour), dueDate, c)
    ELSE slot

findNextWorkingSlot(startTime, dueDate, c) ==
    AdvanceToWorkingDay(ClampToWorkingHours(startTime, c), dueDate, c)

\* endTime = startTime.add(task.estimatedMinutes, 'minute')
RescheduleEndWithBuffer(startTime, task) ==
    startTime + task.estimatedMinutes + BufferMinutes

RescheduleEnd(startTime, task) == startTime + task.estimatedMinutes

RescheduleCursorNoBuffer(endTime) == endTime

\* memberSchedules[memberName] = endTime.add(15, 'minute')
RescheduleCursor(endTime) == endTime + BufferMinutes

\* memberSchedules[memberName] || startDate.hour(startHour).minute(0).second(0)
RescheduleFirstSlot(ms, task, c) ==
    IF task.assignee \in DOMAIN ms THEN ms[task.assignee] ELSE TomorrowAt(c.startHour)

\* the for loop over sortedTasks
RECURSIVE RescheduleLoop(_, _, _, _, _)
RescheduleLoop(tasks, ms, acc, dueDate, c) ==
    IF tasks = <<>> THEN acc
    ELSE LET task == Head(tasks)
             startTime == findNextWorkingSlot(RescheduleFirstSlot(ms, task, c), dueDate, c)
             endTime == RescheduleEnd(startTime, task)
             rescheduledTask == [task EXCEPT !.start = startTime, !.end = endTime]
         IN RescheduleLoop(Tail(tasks),
                           SetSchedule(ms, task.assignee, RescheduleCursor(endTime)),
                           Append(acc, rescheduledTask), dueDate, c)

rescheduleTasksRefusing(subtasks, dueDate, c) ==
    SelectSeq(RescheduleLoop(SortTasks(subtasks), NoSchedules, <<>>, dueDate, c),
              LAMBDA task : task.start <= dueDate)

rescheduleTasks(subtasks, dueDate, c) ==
    RescheduleLoop(SortTasks(subtasks), NoSchedules, <<>>, dueDate, c)

----------------------------------------------------------------------------
(* AIPlanner: the fallback planner *)

\* A title is "Part {n}: {text}" (kind "Part"), "Task {n}" (kind "Task") or a
\* caller's own text (kind "Text"); details are "{text} for {title}".
PartTitle(n, text) == [kind |-> "Part", n |-> n, text |-> text]
Details(text, for) == [text |-> text, for |-> for]

taskTemplates ==
    << [title |-> "Research and Planning",      details |-> "Initial research and planning phase", minutes |-> 120],
       [title |-> "Analysis and Investigation", details |-> "Detailed analysis of requirements",   minutes |-> 180],
       [title |-> "Development and Creation",   details |-> "Main development or creation work",   minutes |-> 240],
       [title |-> "Review and Testing",         details |-> "Quality review and testing",          minutes |-> 90],
       [title |-> "Documentation",              details |-> "Create documentation and reports",    minutes |-> 60],
       [title |-> "Finalization",               details |-> "Final review and polish",             minutes |-> 60] >>

generatePartTasksNoCycle(partNumber, tasksPerPart, title, description) ==
    [i \in 1..tasksPerPart |->
        LET template == taskTemplates[IF i > Len(taskTemplates) THEN Len(taskTemplates) ELSE i]
        IN [part |-> partNumber,
            title |-> PartTitle(partNumber, template.title),
            details |-> Details(template.details, title),
            estimatedMinutes |-> template.minutes]]

\* generatePartTasks: tasksPerPart partial tasks cycling through the templates
\* (the description is passed in and not used)
generatePartTasks(partNumber, tasksPerPart, title, description) ==
    [i \in 1..tasksPerPart |->
        LET template == taskTemplates[((i - 1) % Len(taskTemplates)) + 1]
        IN [part |-> partNumber,
            title |-> PartTitle(partNumber, template.title),
            details |-> Details(template.details, title),
            estimatedMinutes |-> template.minutes]]

\* "Complete the partial task with required fields": the fields a partial
\* task holds are truthy and kept; it gets members[0].name and one hour
\* tomorrow
CompleteTask(task, members) ==
    [part |-> task.part,
     title |-> task.title,
     details |-> task.details,
     assignee |-> members[1].name,
     estimatedMinutes |-> task.estimatedMinutes,
     start |-> AddDay(now),
     end |-> AddDay(now) + 60]

TasksPerPartTwo(parts) == 2

\* Math.max(2, Math.floor(8 / parts))
TasksPerPart(parts) == Max(2, 8 \div parts)

\* for (let part = 1; part <= parts; part++)
RECURSIVE FallbackSubtasks(_, _, _)
FallbackSubtasks(part, tasksPerPart, input) ==
    IF part > input.parts THEN <<>>
    ELSE LET partTasks == generatePartTasks(part, tasksPerPart, input.title,
                                            input.description)
         IN [i \in 1..Len(partTasks) |-> CompleteTask(partTasks[i], input.members)]
            \o FallbackSubtasks(part + 1, tasksPerPart, input)

rolePreferences ==
    [r \in {"Research", "Writing", "Review", "Analysis", "Design"} |->
        CASE r = "Research" -> {"research", "analysis", "investigation"}
          [] r = "Writing"  -> {"documentation", "creation", "development"}
          [] r = "Review"   -> {"review", "testing", "finalization"}
          [] r = "Analysis" -> {"analysis", "investigation", "research"}
          [] r = "Design"   -> {"development", "creation", "planning"}]

\* The keywords of rolePreferences that occur, lower-cased, as substrings of a
\* text the model uses (String.prototype.includes on the lower-cased text)
KeywordsIn(text) ==
    CASE text = "Research and Planning"               -> {"research", "planning"}
      [] text = "Initial research and planning phase" -> {"research", "planning"}
      [] text = "Analysis and Investigation"          -> {"analysis", "investigation"}
      [] text = "Detailed analysis of requirements"   -> {"analysis"}
      [] text = "Development and Creation"            -> {"development", "creation"}
      [] text = "Main development or creation work"   -> {"development", "creation"}
      [] text = "Review and Testing"                  -> {"review", "testing"}
      [] text = "Quality review and testing"          -> {"review", "testing"}
      [] text = "Documentation"                       -> {"documentation"}
      [] text = "Create documentation and reports"    -> {"documentation"}
      [] text = "Finalization"                        -> {"finalization"}
      [] text = "Final review and polish"             -> {"review"}
      [] text = "Testing plan"                        -> {"testing"}
      [] OTHER                                        -> {}

\* `${task.title} ${task.details}`.toLowerCase() holds the keyword
TaskTextIncludes(task, pref) ==
    pref \in KeywordsIn(task.title.text) \cup KeywordsIn(task.details.text)
             \cup KeywordsIn(task.details.for)

MemberMatches(member, task) ==
    /\ member.role \in DOMAIN rolePreferences
    /\ \E pref \in rolePreferences[member.role] : TaskTextIncludes(task, pref)

AssignedMemberLastMatch(task, index, members) ==
    IF \E k \in 1..Len(members) : MemberMatches(members[k], task)
    THEN members[CHOOSE k \in 1..Len(members) :
                    /\ MemberMatches(members[k], task)
                    /\ \A j \in (k + 1)..Len(members) : ~MemberMatches(members[j], task)]
    ELSE members[(index % Len(members)) + 1]

\* the member the task at 0-based index goes to: the first member whose role
\* matches, else members[index % members.length]
AssignedMember(task, index, members) ==
    IF \E k \in 1..Len(members) : MemberMatches(members[k], task)
    THEN members[CHOOSE k \in 1..Len(members) :
                    /\ MemberMatches(members[k], task)
                    /\ \A j \in 1..(k - 1) : ~MemberMatches(members[j], task)]
    ELSE members[(index % Len(members)) + 1]

assignMembersToTasks(subtasks, members) ==
    [i \in 1..Len(subtasks) |->
        [subtasks[i] EXCEPT !.assignee = AssignedMember(subtasks[i], i - 1, members).name]]

\* while (!daysOfWeek.includes(nextSlot.day())) has no other exit: day() runs
\* through 0..6, so the loop ends exactly when daysOfWeek holds one of them
LoopsForever(c) == c.daysOfWeek \cap (0..6) = {}

RECURSIVE SkipToWorkingDay(_, _)
SkipToWorkingDay(slot, c) ==
    IF DowOf(slot) \notin c.daysOfWeek
    THEN SkipToWorkingDay(AtHour(AddDay(slot), c.startHour), c)
    ELSE slot

\* "Check if task fits in remaining work hours for the day"
FitInDay(nextSlot, task, c) ==
    LET dayEndTime == SetHour(nextSlot, c.endHour)
        taskEndTime == nextSlot + task.estimatedMinutes
    IN IF taskEndTime > dayEndTime
       THEN SkipToWorkingDay(AtHour(AddDay(nextSlot), c.startHour), c)
       ELSE nextSlot

FallbackEnd(startTime, task) == startTime + task.estimatedMinutes

FallbackCursor(endTime) == endTime + BufferMinutes

\* if (!task.assignee || !task.estimatedMinutes) return;
SkipsTask(task) == task.assignee = "" \/ task.estimatedMinutes = 0

\* scheduleTasks: the forEach over the subtasks, in list order.  The value is
\* the list with its slots, or Hung when a daysOfWeek loop never ends and the
\* call does not return.
Hung == [hung |-> TRUE, tasks |-> <<>>]

RECURSIVE ScheduleLoop(_, _, _, _)
ScheduleLoop(tasks, ms, acc, c) ==
    IF tasks = <<>> THEN [hung |-> FALSE, tasks |-> acc]
    ELSE LET task == Head(tasks) IN
         IF SkipsTask(task) THEN ScheduleLoop(Tail(tasks), ms, Append(acc, task), c)
         ELSE IF LoopsForever(c) THEN Hung
         ELSE LET first == IF task.assignee \in DOMAIN ms THEN ms[task.assignee]
                           ELSE TomorrowAt(c.startHour)
                  startTime == FitInDay(SkipToWorkingDay(first, c), task, c)
                  endTime == FallbackEnd(startTime, task)
              IN ScheduleLoop(Tail(tasks),
                              SetSchedule(ms, task.assignee, FallbackCursor(endTime)),
                              Append(acc, [task EXCEPT !.start = startTime, !.end = endTime]),
                              c)

\* the cursor map a scheduling pass starts from
memberSchedulesKept == provider.memberSchedules

memberSchedules == NoSchedules

scheduleTasks(subtasks, c) == ScheduleLoop(subtasks, memberSchedules, <<>>, c)

generateFallbackPlan(input) ==
    scheduleTasks(
        assignMembersToTasks(FallbackSubtasks(1, TasksPerPart(input.parts), input),
                             input.members),
        input.constraints)

----------------------------------------------------------------------------
(* AIPlanner.validateAndRepairPlan and AIPlanner.generatePlan *)

\* A candidate record of the provider.  A field the record lacks is its falsy
\* value: part 0, estimatedMinutes 0, assignee "", title of kind "None",
\* details with text ""; scheduled.start and scheduled.end are [ok, t, iso],
\* ok being whether the string is there and dayjs parses it, t the instant it
\* denotes and iso whether it is written the way toISOString writes it.
NoTitle == [kind |-> "None", n |-> 0, text |-> ""]
TaskTitle(n) == [kind |-> "Task", n |-> n, text |-> ""]
NoTime == [ok |-> FALSE, t |-> 0, iso |-> FALSE]
Time(t) == [ok |-> TRUE, t |-> t, iso |-> TRUE]
\* a parsable timestamp in another form ("2025-01-01 09:00", an offset, ...)
LocalTime(t) == [ok |-> TRUE, t |-> t, iso |-> FALSE]

\* validateDateTime: null, or dayjs(dateStr).toISOString(), which denotes the
\* same instant in ISO form
validateDateTime(time) == IF time.ok THEN Time(time.t) ELSE NoTime

memberNames(input) == {input.members[k].name : k \in 1..Len(input.members)}

\* dayjs().add(1, 'day').hour(startHour).minute(0).second(0).add(index * 2, 'hour')
getDefaultStartTime(index, input) ==
    TomorrowAt(input.constraints.startHour) + index * 2 * 60

getDefaultEndTime(index, input, estimatedMinutes) ==
    getDefaultStartTime(index, input) + estimatedMinutes

\* Math.floor(index / (subtasks.length / input.parts)) + 1
DefaultPart(index, len, parts) == ((index * parts) \div len) + 1

RepairAssigneeFirstMember(subtask, index, input) ==
    IF subtask.assignee \in memberNames(input) THEN subtask.assignee
    ELSE input.members[1].name

\* memberNames.includes(subtask.assignee) ? subtask.assignee
\*                                        : memberNames[index % memberNames.length]
RepairAssignee(subtask, index, input) ==
    IF subtask.assignee \in memberNames(input) THEN subtask.assignee
    ELSE input.members[(index % Len(input.members)) + 1].name

\* subtask.estimatedMinutes > 0 ? subtask.estimatedMinutes : 60
RepairMinutes(subtask) ==
    IF subtask.estimatedMinutes > 0 THEN subtask.estimatedMinutes ELSE 60

RepairStart(subtask, index, input) ==
    IF validateDateTime(subtask.start).ok THEN validateDateTime(subtask.start).t
    ELSE getDefaultStartTime(index, input)

RepairEndFromDefault(subtask, index, input) ==
    getDefaultEndTime(index, input,
        IF subtask.estimatedMinutes # 0 THEN subtask.estimatedMinutes ELSE 60)

\* validateDateTime(end) || getDefaultEndTime(index, input, subtask.estimatedMinutes || 60)
RepairEnd(subtask, index, input) ==
    IF validateDateTime(subtask.end).ok THEN validateDateTime(subtask.end).t
    ELSE getDefaultEndTime(index, input,
             IF subtask.estimatedMinutes # 0 THEN subtask.estimatedMinutes ELSE 60)

\* the candidate at 0-based index, repaired
RepairSubtask(subtask, index, len, input) ==
    [part |-> IF subtask.part # 0 THEN subtask.part ELSE DefaultPart(index, len, input.parts),
     title |-> IF subtask.title.kind # "None" THEN subtask.title ELSE TaskTitle(index + 1),
     details |-> IF subtask.details.text # "" THEN subtask.details
                 ELSE Details("No details provided", ""),
     assignee |-> RepairAssignee(subtask, index, input),
     estimatedMinutes |-> RepairMinutes(subtask),
     start |-> RepairStart(subtask, index, input),
     end |-> RepairEnd(subtask, index, input)]

validateAndRepairPlan(subtasks, input) ==
    [i \in 1..Len(subtasks) |-> RepairSubtask(subtasks[i], i - 1, Len(subtasks), input)]

\* What the provider's answer is, by the branch of callGemini and of
\* validateAndRepairPlan it takes:
\*   request_error  fetch rejects
\*   http_error     !response.ok
\*   no_text        no candidates[0].content.parts[0].text
\*   no_json        extractFirstJSONObject finds no complete {...}
\*   bad_json       JSON.parse throws
\*   no_plan        no plan, or plan.subtasks is not an array
\*   plan           plan.subtasks is an array of candidate records
CallGeminiThrows(outcome) ==
    outcome.kind \in {"request_error", "http_error", "no_text", "no_json", "bad_json"}

RepairThrows(outcome) == outcome.kind = "no_plan"

\* generatePlan once the provider has answered: the try block and its catch
PlanFromAnswer(outcome, input) ==
    IF CallGeminiThrows(outcome) \/ RepairThrows(outcome)
    THEN generateFallbackPlan(input)
    ELSE [hung |-> FALSE, tasks |-> validateAndRepairPlan(outcome.subtasks, input)]

----------------------------------------------------------------------------
(* Scheduler.calculateAvailableHours and Scheduler.validateScheduleFeasibility *)

\* the capacity of a working day read from workHoursPerDay
RECURSIVE AvailableHoursFromWorkHours(_, _, _)
AvailableHoursFromWorkHours(currentDate, dueDate, c) ==
    IF currentDate < dueDate
    THEN (IF DowOf(currentDate) \in c.daysOfWeek THEN c.workHoursPerDay ELSE 0)
         + AvailableHoursFromWorkHours(AddDay(currentDate), dueDate, c)
    ELSE 0

RECURSIVE AvailableHoursFrom(_, _, _)
AvailableHoursFrom(currentDate, dueDate, c) ==
    IF currentDate < dueDate
    THEN (IF DowOf(currentDate) \in c.daysOfWeek THEN c.endHour - c.startHour ELSE 0)
         + AvailableHoursFrom(AddDay(currentDate), dueDate, c)
    ELSE 0

calculateAvailableHours(dueDate, c) ==
    AvailableHoursFrom(TomorrowAt(c.startHour), dueDate, c)

RECURSIVE TotalMinutes(_)
TotalMinutes(subtasks) ==
    IF subtasks = <<>> THEN 0
    ELSE Head(subtasks).estimatedMinutes + TotalMinutes(Tail(subtasks))

NoReport == [feasible |-> FALSE, requiredMinutes |-> 0, availableHours |-> 0]

validateScheduleFeasibilityNoMargin(subtasks, dueDate, c, memberCount) ==
    LET totalMinutes == TotalMinutes(subtasks)
        availableHours == calculateAvailableHours(dueDate, c) * memberCount
    IN [feasible |-> totalMinutes <= availableHours * 60,
        requiredMinutes |-> totalMinutes,
        availableHours |-> availableHours]

\* requiredHours = totalMinutes / 60 is carried as the minutes.  The test
\* requiredHours <= availableHours * 0.8 is taken over the rationals: with
\* whole minutes and whole hours the two sides are equal or at least 1/60
\* apart, and where they are equal (totalMinutes = 48 * availableHours) the
\* doubles totalMinutes / 60 and availableHours * 0.8 compare <= as well,
\* the double 0.8 lying above 4/5
validateScheduleFeasibility(subtasks, dueDate, c, memberCount) ==
    LET totalMinutes == TotalMinutes(subtasks)
        availableHours == calculateAvailableHours(dueDate, c) * memberCount
    IN [feasible |-> totalMinutes * 10 <= availableHours * 8 * 60,
        requiredMinutes |-> totalMinutes,
        availableHours |-> availableHours]

----------------------------------------------------------------------------
(* The tables (schema.sql) and the provider *)

NoRows ==
    [teams |-> 0, team_members |-> 0, assignments |-> 0,
     tasks |-> <<>>, task_assignees |-> <<>>, calendar_events |-> <<>>]

NoOutcome == [kind |-> "none", subtasks |-> <<>>]

NoProvider == [apiKey |-> FALSE, called |-> FALSE, silent |-> FALSE, outcome |-> NoOutcome]

----------------------------------------------------------------------------
(* The inputs of the model *)

Names == {"Alice", "Bob"}

TextTitle(text) == [kind |-> "Text", n |-> 0, text |-> text]

\* a subtask as a caller of rescheduleTasks supplies it
InputTasks ==
    [part : 1..2, title : {TextTitle("T")}, details : {Details("D", "")},
     assignee : Names, estimatedMinutes : {60, 240}, start : {0}, end : {0}]

RECURSIVE SeqsUpTo(_, _)
SeqsUpTo(S, n) ==
    IF n = 0 THEN {<<>>}
    ELSE LET shorter == SeqsUpTo(S, n - 1)
         IN shorter \cup {Append(s, x) : s \in shorter, x \in S}

HourWindows == {<<9, 17>>, <<22, 23>>, <<17, 9>>}

DaySets == {1..5, 0..6, {}}

ConstraintSets ==
    {[workHoursPerDay |-> 8, startHour |-> w[1], endHour |-> w[2], daysOfWeek |-> d] :
        w \in HourWindows, d \in DaySets}

\* the data model's invariant of a constraint set
ValidConstraints(c) ==
    /\ c.startHour < c.endHour
    /\ c.daysOfWeek # {}
    /\ c.daysOfWeek \subseteq 0..6

\* today 00:00 (already past), the day after tomorrow 08:00, two weeks ahead
DueDates == {0, 2 * 1440 + 480, 14 * 1440}

MemberLists ==
    { <<[name |-> "Alice", role |-> ""]>>,
      <<[name |-> "Alice", role |-> ""], [name |-> "Bob", role |-> "Review"]>>,
      <<[name |-> "Alice", role |-> "Design"], [name |-> "Bob", role |-> "Research"]>> }

AssignmentTitles == {"X", "Testing plan"}

\* a member list whose first member has a role of the table
ReviewerFirst == <<[name |-> "Alice", role |-> "Review"], [name |-> "Bob", role |-> ""]>>

RescheduleCalls ==
    [op : {"reschedule"}, subtasks : SeqsUpTo(InputTasks, MaxTasks) \ {<<>>},
     dueDate : DueDates, constraints : ConstraintSets]

FallbackCalls ==
    [op : {"fallback"}, title : AssignmentTitles, description : {""},
     parts : (1..MaxParts) \cup {ManyParts},
     members : MemberLists \cup {ReviewerFirst}, dueDate : DueDates \ {0},
     constraints : ConstraintSets]


----------------------------------------------------------------------------
(* SpecSched: one call of Scheduler.rescheduleTasks or of the fallback planner *)

InitSched ==
    /\ now = 600
    /\ todayDow \in 0..6
    /\ req \in RescheduleCalls \cup FallbackCalls
    /\ phase = "idle"
    /\ result = <<>>
    /\ status = 0
    /\ report = NoReport
    /\ provider = NoProvider
    /\ txn = NoRows
    /\ db = NoRows

Reschedule ==
    /\ phase = "idle"
    /\ req.op = "reschedule"
    /\ result' = rescheduleTasks(req.subtasks, req.dueDate, req.constraints)
    /\ phase' = "done"
    /\ UNCHANGED <<now, todayDow, req, status, report, provider, txn, db>>

FallbackPlan ==
    /\ phase = "idle"
    /\ req.op = "fallback"
    /\ LET plan == generateFallbackPlan(req)
       IN /\ result' = plan.tasks
          /\ phase' = IF plan.hung THEN "hung" ELSE "done"
    /\ UNCHANGED <<now, todayDow, req, status, report, provider, txn, db>>

NextSched == Reschedule \/ FallbackPlan

SpecSched == InitSched /\ [][NextSched]_vars

----------------------------------------------------------------------------
(* The request bodies *)

\* A field of body.constraints: given says whether the caller supplied it
Field(v) == [given |-> TRUE, v |-> v]
NoField == [given |-> FALSE, v |-> 0]
NoDays == [given |-> FALSE, v |-> {}]

ConstraintsBody(w, s, e, d) ==
    [workHoursPerDay |-> Field(w), startHour |-> Field(s), endHour |-> Field(e),
     daysOfWeek |-> Field(d)]

NoConstraintsBody ==
    [workHoursPerDay |-> NoField, startHour |-> NoField, endHour |-> NoField,
     daysOfWeek |-> NoDays]

ConstraintBodies ==
    { NoConstraintsBody,
      ConstraintsBody(8, 9, 17, 1..5),
      ConstraintsBody(4, 9, 13, 0..6),
      ConstraintsBody(8, 17, 9, 1..5),
      ConstraintsBody(8, 9, 17, {}),
      ConstraintsBody(8, 0, 8, 1..5) }

\* body.constraints?.x || d
OrDefault(field, d) == IF field.given /\ field.v # 0 THEN field.v ELSE d

\* "Default constraints": 6, 9, 18, Mon-Fri
EffectiveConstraints(cb) ==
    [workHoursPerDay |-> OrDefault(cb.workHoursPerDay, 6),
     startHour |-> OrDefault(cb.startHour, 9),
     endHour |-> OrDefault(cb.endHour, 18),
     daysOfWeek |-> IF cb.daysOfWeek.given THEN cb.daysOfWeek.v ELSE 1..5]

\* body.dueDate: missing, a string dayjs cannot parse, today 00:00 (past),
\* the day after tomorrow 08:00, two weeks ahead
DueInputs ==
    { [given |-> FALSE, valid |-> FALSE, t |-> 0],
      [given |-> TRUE, valid |-> FALSE, t |-> 0],
      [given |-> TRUE, valid |-> TRUE, t |-> 0],
      [given |-> TRUE, valid |-> TRUE, t |-> 2 * 1440 + 480],
      [given |-> TRUE, valid |-> TRUE, t |-> 14 * 1440] }

PlanEndpoints == {"POST /api/assignments", "POST /api/ai/plan"}

\* title "" is a missing or blank title; parts 0 is a missing or zero parts
PlanBodies ==
    [title : {"", "X"}, dueDate : DueInputs, parts : {-1, 0} \cup (1..MaxParts),
     members : {<<>>} \cup MemberLists, constraints : ConstraintBodies]

PlanRequests == [endpoint : PlanEndpoints, body : PlanBodies]

RescheduleRequests ==
    [endpoint : {"POST /api/ai/reschedule"},
     body : [subtasks : SeqsUpTo(InputTasks, MaxTasks), dueDate : DueInputs,
             constraints : ConstraintBodies]]

----------------------------------------------------------------------------
(* What the provider may answer *)

MaxCandidates == 2

RawCandidates ==
    { [part |-> 1, title |-> TextTitle("T"), details |-> Details("D", ""),
       assignee |-> "Alice", estimatedMinutes |-> 60,
       start |-> Time(1440 + 9 * 60), end |-> Time(1440 + 10 * 60)],
      [part |-> 1, title |-> TextTitle("T"), details |-> Details("D", ""),
       assignee |-> "Alice", estimatedMinutes |-> 180,
       start |-> NoTime, end |-> NoTime],
      [part |-> 0, title |-> NoTitle, details |-> Details("", ""),
       assignee |-> "Unknown Person", estimatedMinutes |-> 0,
       start |-> Time(1440 + 3 * 60), end |-> NoTime],
      [part |-> 2, title |-> TextTitle("T"), details |-> Details("D", ""),
       assignee |-> "Bob", estimatedMinutes |-> -30,
       start |-> NoTime, end |-> Time(1440 + 12 * 60)] }

FailureKinds == {"request_error", "http_error", "no_text", "no_json", "bad_json", "no_plan"}

ProviderOutcomes ==
    {[kind |-> k, subtasks |-> <<>>] : k \in FailureKinds}
    \cup {[kind |-> "plan", subtasks |-> cs] : cs \in SeqsUpTo(RawCandidates, MaxCandidates)}

----------------------------------------------------------------------------
(* POST /api/assignments and POST /api/ai/plan (the same handler twice) *)

ValidPlanBodyAnyDueDate(b) ==
    /\ b.title # ""
    /\ b.dueDate.given
    /\ ~(b.parts = 0 \/ b.parts < 1)
    /\ Len(b.members) # 0
    /\ b.dueDate.valid

\* "Validate required fields" and the due date check
ValidPlanBody(b) ==
    /\ b.title # ""
    /\ b.dueDate.given
    /\ ~(b.parts = 0 \/ b.parts < 1)
    /\ Len(b.members) # 0
    /\ b.dueDate.valid
    /\ ~(b.dueDate.t < now)

\* "Prepare AI planning input"; a body of the model carries no description
PlanningInput(b) ==
    [title |-> b.title, description |-> "", dueDate |-> b.dueDate.t, parts |-> b.parts,
     members |-> b.members, constraints |-> EffectiveConstraints(b.constraints)]

\* the transaction up to generatePlan: the team, its members, the assignment
OpenAssignment(t, b) ==
    [t EXCEPT !.teams = @ + 1,
              !.team_members = @ + Len(b.members),
              !.assignments = @ + 1]

\* body.members.find(m => m.name === subtask.assignee), as a 1-based index,
\* 0 if there is none
FindMember(members, name) ==
    IF \E k \in 1..Len(members) : members[k].name = name
    THEN CHOOSE k \in 1..Len(members) :
            /\ members[k].name = name
            /\ \A j \in 1..(k - 1) : members[j].name # name
    ELSE 0

\* the loop over aiSubtasks: a task, its assignee and its calendar event each
RECURSIVE InsertSubtasks(_, _, _, _)
InsertSubtasks(t, subtasks, b, firstMemberId) ==
    IF subtasks = <<>> THEN t
    ELSE LET subtask == Head(subtasks)
             taskId == Len(t.tasks) + 1
             k == FindMember(b.members, subtask.assignee)
             task == [assignment_id |-> t.assignments,
                      title |-> subtask.title, details |-> subtask.details,
                      part_number |-> subtask.part,
                      estimated_minutes |-> subtask.estimatedMinutes,
                      planned_start |-> subtask.start, planned_end |-> subtask.end,
                      status_id |-> 1]
             event == [task_id |-> taskId,
                       title |-> [title |-> subtask.title, assignee |-> subtask.assignee],
                       description |-> subtask.details,
                       start |-> subtask.start, end |-> subtask.end, all_day |-> FALSE]
         IN InsertSubtasks(
                [t EXCEPT !.tasks = Append(@, task),
                          !.task_assignees =
                              IF k # 0
                              THEN Append(@, [task_id |-> taskId, member_id |-> firstMemberId + k])
                              ELSE @,
                          !.calendar_events = Append(@, event)],
                Tail(subtasks), b, firstMemberId)

\* the rest of the handler once generatePlan has returned plan: the rows are
\* written, the transaction commits and the response is 201; a plan that never
\* returns leaves the handler where it is
FinishPlan(plan) ==
    IF plan.hung
    THEN /\ phase' = "hung"
         /\ txn' = OpenAssignment(db, req.body)
         /\ UNCHANGED <<result, status, db>>
    ELSE LET rows == InsertSubtasks(OpenAssignment(db, req.body), plan.tasks, req.body,
                                    db.team_members)
         IN /\ phase' = "responded"
            /\ result' = plan.tasks
            /\ status' = 201
            /\ txn' = rows
            /\ db' = rows

RejectPlanRequest ==
    /\ phase = "received"
    /\ req.endpoint \in PlanEndpoints
    /\ ~ValidPlanBody(req.body)
    /\ status' = 400
    /\ phase' = "responded"
    /\ UNCHANGED <<now, todayDow, req, result, report, provider, txn, db>>

\* no API key: generatePlan returns the fallback plan at once
PlanWithoutKey ==
    /\ phase = "received"
    /\ req.endpoint \in PlanEndpoints
    /\ ValidPlanBody(req.body)
    /\ ~provider.apiKey
    /\ FinishPlan(generateFallbackPlan(PlanningInput(req.body)))
    /\ UNCHANGED <<now, todayDow, req, report, provider>>

\* callGemini sends the request and awaits fetch; the provider answers or not
CallProvider ==
    /\ phase = "received"
    /\ req.endpoint \in PlanEndpoints
    /\ ValidPlanBody(req.body)
    /\ provider.apiKey
    /\ \E silent \in BOOLEAN :
          provider' = [provider EXCEPT !.called = TRUE, !.silent = silent]
    /\ txn' = OpenAssignment(db, req.body)
    /\ phase' = "awaiting"
    /\ UNCHANGED <<now, todayDow, req, result, status, report, db>>

\* the await of fetch settles
ProviderAnswers ==
    /\ phase = "awaiting"
    /\ ~provider.silent
    /\ \E outcome \in ProviderOutcomes :
          /\ provider' = [provider EXCEPT !.outcome = outcome]
          /\ FinishPlan(PlanFromAnswer(outcome, PlanningInput(req.body)))
    /\ UNCHANGED <<now, todayDow, req, report>>

----------------------------------------------------------------------------
(* POST /api/ai/reschedule *)

ValidRescheduleBody(b) ==
    /\ Len(b.subtasks) # 0
    /\ b.dueDate.given
    /\ b.dueDate.valid

Assignees(subtasks) == {subtasks[i].assignee : i \in 1..Len(subtasks)}

PostReschedule ==
    /\ phase = "received"
    /\ req.endpoint = "POST /api/ai/reschedule"
    /\ IF ~ValidRescheduleBody(req.body)
       THEN /\ status' = 400
            /\ UNCHANGED <<result, report>>
       ELSE LET schedulingConstraints == EffectiveConstraints(req.body.constraints)
                rescheduledTasks == rescheduleTasks(req.body.subtasks, req.body.dueDate.t,
                                                    schedulingConstraints)
            IN /\ result' = rescheduledTasks
               /\ report' = validateScheduleFeasibility(
                                rescheduledTasks, req.body.dueDate.t, schedulingConstraints,
                                Cardinality(Assignees(req.body.subtasks)))
               /\ status' = 200
    /\ phase' = "responded"
    /\ UNCHANGED <<now, todayDow, req, provider, txn, db>>

----------------------------------------------------------------------------
(* Spec: one request to the API, from its arrival to its response *)

Init ==
    /\ now = 600
    /\ todayDow \in 0..6
    /\ req \in PlanRequests \cup RescheduleRequests
    /\ phase = "received"
    /\ result = <<>>
    /\ status = 0
    /\ report = NoReport
    /\ provider \in {[NoProvider EXCEPT !.apiKey = k] : k \in BOOLEAN}
    /\ txn = NoRows
    /\ db = NoRows

Next ==
    \/ RejectPlanRequest
    \/ PlanWithoutKey
    \/ CallProvider
    \/ ProviderAnswers
    \/ PostReschedule

Spec == Init /\ [][Next]_vars

----------------------------------------------------------------------------
(* FairSpec: the planning requests that reach the provider, under the event
   loop's scheduling.  A continuation whose await has settled is run
   (weak fairness of each handler step); whether the await of fetch settles
   is the provider's choice (provider.silent), and callGemini sets no timer
   and passes no AbortSignal that would settle it otherwise. *)

ProviderRequests ==
    {r \in PlanRequests : /\ ValidPlanBody(r.body)
                          /\ r.body.constraints = NoConstraintsBody}

InitProvider ==
    /\ now = 600
    /\ todayDow \in 0..6
    /\ req \in ProviderRequests
    /\ phase = "received"
    /\ result = <<>>
    /\ status = 0
    /\ report = NoReport
    /\ provider = [NoProvider EXCEPT !.apiKey = TRUE]
    /\ txn = NoRows
    /\ db = NoRows

NextProvider ==
    \/ CallProvider
    \/ ProviderAnswers

FairSpec ==
    /\ InitProvider
    /\ [][NextProvider]_vars
    /\ WF_vars(CallProvider)
    /\ WF_vars(ProviderAnswers)

----------------------------------------------------------------------------
(* Scheduler.balanceWorkload and POST /api/ai/balance-workload *)

MaxBalanceTasks == 3

\* "Calculate current workload per member": the keys of memberWorkload in the
\* order they were first written, and the minutes summed per key
RECURSIVE FirstSeen(_, _)
FirstSeen(subtasks, seen) ==
    IF subtasks = <<>> THEN seen
    ELSE LET a == Head(subtasks).assignee
         IN FirstSeen(Tail(subtasks),
                      IF \E i \in 1..Len(seen) : seen[i] = a THEN seen
                      ELSE Append(seen, a))

RECURSIVE MinutesOf(_, _)
MinutesOf(subtasks, member) ==
    IF subtasks = <<>> THEN 0
    ELSE (IF Head(subtasks).assignee = member THEN Head(subtasks).estimatedMinutes ELSE 0)
         + MinutesOf(Tail(subtasks), member)

CurrentWorkload(subtasks) ==
    [m \in Assignees(subtasks) |-> MinutesOf(subtasks, m)]

\* sort((a, b) => memberWorkload[a] - memberWorkload[b]), a stable sort
RECURSIVE InsertByWorkload(_, _, _)
InsertByWorkload(m, s, memberWorkload) ==
    IF s = <<>> THEN <<m>>
    ELSE IF memberWorkload[m] < memberWorkload[Head(s)] THEN <<m>> \o s
    ELSE <<Head(s)>> \o InsertByWorkload(m, Tail(s), memberWorkload)

RECURSIVE SortByWorkload(_, _)
SortByWorkload(s, memberWorkload) ==
    IF s = <<>> THEN <<>>
    ELSE InsertByWorkload(s[Len(s)],
                          SortByWorkload(SubSeq(s, 1, Len(s) - 1), memberWorkload),
                          memberWorkload)

\* the member a task is handed to: sortedMembers[memberIndex % length]
AssignedTo(sortedMembers, memberIndex) ==
    sortedMembers[(memberIndex % Len(sortedMembers)) + 1]

\* "Reassign tasks to balance workload": memberWorkload goes on from the
\* workload just calculated, sortedMembers is sorted again after every task
RECURSIVE BalanceLoop(_, _, _, _, _)
BalanceLoop(tasks, sortedMembers, memberWorkload, memberIndex, acc) ==
    IF tasks = <<>> THEN acc
    ELSE LET task == Head(tasks)
             assignedMember == AssignedTo(sortedMembers, memberIndex)
             workload == [memberWorkload EXCEPT
                             ![assignedMember] = @ + task.estimatedMinutes]
         IN BalanceLoop(Tail(tasks),
                        SortByWorkload(sortedMembers, workload),
                        workload,
                        memberIndex + 1,
                        Append(acc, [task EXCEPT !.assignee = assignedMember]))

balanceWorkload(subtasks) ==
    LET memberWorkload == CurrentWorkload(subtasks)
        sortedMembers == SortByWorkload(FirstSeen(subtasks, <<>>), memberWorkload)
    IN BalanceLoop(subtasks, sortedMembers, memberWorkload, 0, <<>>)

\* the handler's workloadDistribution
workloadByMember(balancedTasks) ==
    [m \in Assignees(balancedTasks) |-> MinutesOf(balancedTasks, m)]

BalanceNames == {"Alice", "Bob", "Carol"}

BalanceTasks ==
    [part : {1}, title : {TextTitle("T")}, details : {Details("D", "")},
     assignee : BalanceNames, estimatedMinutes : {30, 60, 120}, start : {0}, end : {0}]

BalanceRequests ==
    [endpoint : {"POST /api/ai/balance-workload"},
     body : [subtasks : SeqsUpTo(BalanceTasks, MaxBalanceTasks)]]

NoDistribution == [workloadDistribution |-> <<>>]

PostBalanceWorkload ==
    /\ phase = "received"
    /\ req.endpoint = "POST /api/ai/balance-workload"
    /\ IF Len(req.body.subtasks) = 0
       THEN /\ status' = 400
            /\ UNCHANGED <<result, report>>
       ELSE LET balancedTasks == balanceWorkload(req.body.subtasks)
            IN /\ result' = balancedTasks
               /\ report' = [workloadDistribution |-> workloadByMember(balancedTasks)]
               /\ status' = 200
    /\ phase' = "responded"
    /\ UNCHANGED <<now, todayDow, req, provider, txn, db>>

InitBal ==
    /\ now = 600
    /\ todayDow = 0
    /\ req \in BalanceRequests
    /\ phase = "received"
    /\ result = <<>>
    /\ status = 0
    /\ report = NoDistribution
    /\ provider = NoProvider
    /\ txn = NoRows
    /\ db = NoRows

NextBal == PostBalanceWorkload

SpecBal == InitBal /\ [][NextBal]_vars

----------------------------------------------------------------------------
(* SpecFeas: Scheduler.validateScheduleFeasibility called for two due dates,
   d1 <= d2, with the subtasks, the constraints, the member count and the
   clock the same in both calls *)

MaxFeasTasks == 2

FeasTasks ==
    [part : {1}, title : {TextTitle("T")}, details : {Details("D", "")},
     assignee : {"Alice"}, estimatedMinutes : {48, 240, 10000}, start : {0}, end : {0}]

FeasWindows == {<<9, 17>>, <<9, 10>>, <<17, 9>>}

FeasConstraints ==
    {[workHoursPerDay |-> w, startHour |-> h[1], endHour |-> h[2], daysOfWeek |-> d] :
        w \in {6, 8}, h \in FeasWindows, d \in DaySets}

\* today 00:00, tomorrow 08:00, tomorrow 23:59, the day after tomorrow 08:00,
\* a week ahead
FeasDueDates == {0, 1440 + 480, 1440 + 1439, 2 * 1440 + 480, 7 * 1440}

FeasibilityCalls ==
    {c \in [op : {"feasibility"}, subtasks : SeqsUpTo(FeasTasks, MaxFeasTasks) \ {<<>>},
            constraints : FeasConstraints, memberCount : 1..2,
            d1 : FeasDueDates, d2 : FeasDueDates] : c.d1 <= c.d2}

NoReports == [first |-> NoReport, second |-> NoReport]

InitFeas ==
    /\ now = 600
    /\ todayDow \in 0..6
    /\ req \in FeasibilityCalls
    /\ phase = "idle"
    /\ result = <<>>
    /\ status = 0
    /\ report = NoReports
    /\ provider = NoProvider
    /\ txn = NoRows
    /\ db = NoRows

ValidateFeasibility ==
    /\ phase = "idle"
    /\ req.op = "feasibility"
    /\ report' = [first |-> validateScheduleFeasibility(req.subtasks, req.d1,
                                req.constraints, req.memberCount),
                  second |-> validateScheduleFeasibility(req.subtasks, req.d2,
                                req.constraints, req.memberCount)]
    /\ phase' = "done"
    /\ UNCHANGED <<now, todayDow, req, result, status, provider, txn, db>>

NextFeas == ValidateFeasibility

SpecFeas == InitFeas /\ [][NextFeas]_vars

----------------------------------------------------------------------------
(* SpecHours: one operation of the core run twice, the second time with
   another workHoursPerDay and everything else the same *)

\* the workHoursPerDay of the second run
OtherHours == {1, 24}

WithHours(c, w) == [c EXCEPT !.workHoursPerDay = w]

HoursCalls ==
    [op : {"reschedule"}, subtasks : SeqsUpTo(InputTasks, MaxTasks) \ {<<>>},
     dueDate : DueDates, constraints : ConstraintSets, otherHours : OtherHours]
    \cup [op : {"fallback"}, title : AssignmentTitles, description : {""},
          parts : 1..MaxParts, members : MemberLists, dueDate : DueDates \ {0},
          constraints : ConstraintSets, otherHours : OtherHours]
    \cup [op : {"feasibility"}, subtasks : SeqsUpTo(FeasTasks, MaxFeasTasks) \ {<<>>},
          dueDate : FeasDueDates, constraints : FeasConstraints, memberCount : 1..2,
          otherHours : OtherHours]

InitHours ==
    /\ now = 600
    /\ todayDow \in 0..6
    /\ req \in HoursCalls
    /\ phase = "idle"
    /\ result = <<>>
    /\ status = 0
    /\ report = NoReports
    /\ provider = NoProvider
    /\ txn = NoRows
    /\ db = NoRows

RescheduleTwice ==
    /\ phase = "idle"
    /\ req.op = "reschedule"
    /\ result' = <<rescheduleTasks(req.subtasks, req.dueDate, req.constraints),
                   rescheduleTasks(req.subtasks, req.dueDate,
                                   WithHours(req.constraints, req.otherHours))>>
    /\ phase' = "done"
    /\ UNCHANGED <<now, todayDow, req, status, report, provider, txn, db>>

FallbackPlanTwice ==
    /\ phase = "idle"
    /\ req.op = "fallback"
    /\ LET first == generateFallbackPlan(req)
           second == generateFallbackPlan(
                         [req EXCEPT !.constraints = WithHours(@, req.otherHours)])
       IN /\ result' = <<first, second>>
          /\ phase' = IF first.hung \/ second.hung THEN "hung" ELSE "done"
    /\ UNCHANGED <<now, todayDow, req, status, report, provider, txn, db>>

ValidateFeasibilityTwice ==
    /\ phase = "idle"
    /\ req.op = "feasibility"
    /\ report' = [first |-> validateScheduleFeasibility(req.subtasks, req.dueDate,
                                req.constraints, req.memberCount),
                  second |-> validateScheduleFeasibility(req.subtasks, req.dueDate,
                                WithHours(req.constraints, req.otherHours),
                                req.memberCount)]
    /\ phase' = "done"
    /\ UNCHANGED <<now, todayDow, req, result, status, provider, txn, db>>

NextHours == RescheduleTwice \/ FallbackPlanTwice \/ ValidateFeasibilityTwice

SpecHours == InitHours /\ [][NextHours]_vars

----------------------------------------------------------------------------
(* SpecRepair: AIPlanner.validateAndRepairPlan applied to a candidate list,
   and applied again to the list it returned *)

MaxRepairTasks == 2

Candidate(part, title, details, assignee, estimatedMinutes, start, end) ==
    [part |-> part, title |-> title, details |-> details, assignee |-> assignee,
     estimatedMinutes |-> estimatedMinutes, start |-> start, end |-> end]

\* well-formed records (with a schedule in ISO form, with a schedule in
\* another form, without a schedule) and malformed ones
RepairCandidates ==
    { Candidate(1, TextTitle("T"), Details("D", ""), "Bob", 60,
                Time(1440 + 9 * 60), Time(1440 + 10 * 60)),
      Candidate(2, TextTitle("T"), Details("D", ""), "Carol", 90,
                Time(2 * 1440 + 10 * 60), Time(2 * 1440 + 11 * 60 + 30)),
      Candidate(1, TextTitle("T"), Details("D", ""), "Bob", 60,
                LocalTime(1440 + 9 * 60), LocalTime(1440 + 10 * 60)),
      Candidate(1, TextTitle("T"), Details("D", ""), "Bob", 60, NoTime, NoTime),
      Candidate(0, NoTitle, Details("", ""), "Unknown Person", 0, NoTime, NoTime),
      Candidate(1, TextTitle("T"), Details("D", ""), "", -30,
                Time(1440 + 9 * 60), NoTime),
      Candidate(1, TextTitle("T"), Details("D", ""), "bob", 60,
                NoTime, Time(1440 + 10 * 60)),
      Candidate(1, TextTitle("T"), Details("D", ""), "Bob", 60,
                Time(1440 + 14 * 60), NoTime),
      Candidate(-1, TextTitle("T"), Details("D", ""), "Bob", 60, NoTime, NoTime) }

RepairMemberLists ==
    { <<[name |-> "Bob", role |-> ""], [name |-> "Carol", role |-> ""]>>,
      <<[name |-> "Carol", role |-> ""]>>,
      <<[name |-> "Alice", role |-> ""], [name |-> "Bob", role |-> ""],
        [name |-> "Carol", role |-> ""]>> }

RepairInputs ==
    [title : {"X"}, description : {""}, dueDate : {14 * 1440}, parts : 1..MaxParts,
     members : RepairMemberLists,
     constraints : {c \in ConstraintSets : c.daysOfWeek = 1..5}]

RepairCalls ==
    [op : {"repair"}, subtasks : SeqsUpTo(RepairCandidates, MaxRepairTasks),
     input : RepairInputs]

\* the repaired list read as a candidate list: its timestamps are the ISO
\* strings toISOString wrote
AsCandidates(subtasks) ==
    [i \in 1..Len(subtasks) |->
        [subtasks[i] EXCEPT !.start = Time(@), !.end = Time(@)]]

NoSecondRepair == [again |-> <<>>]

InitRepair ==
    /\ now = 600
    /\ todayDow = 0
    /\ req \in RepairCalls
    /\ phase = "idle"
    /\ result = <<>>
    /\ status = 0
    /\ report = NoSecondRepair
    /\ provider = NoProvider
    /\ txn = NoRows
    /\ db = NoRows

RepairPlan ==
    /\ phase = "idle"
    /\ req.op = "repair"
    /\ LET repairedSubtasks == validateAndRepairPlan(req.subtasks, req.input)
       IN /\ result' = repairedSubtasks
          /\ report' = [again |-> validateAndRepairPlan(AsCandidates(repairedSubtasks),
                                                        req.input)]
    /\ phase' = "done"
    /\ UNCHANGED <<now, todayDow, req, status, provider, txn, db>>

NextRepair == RepairPlan

SpecRepair == InitRepair /\ [][NextRepair]_vars

----------------------------------------------------------------------------
(* Claims about a scheduling pass *)

InWorkingWindow(task, c) ==
    /\ c.startHour <= HourOf(task.start)
    /\ HourOf(task.start) < c.endHour
    /\ DowOf(task.start) \in c.daysOfWeek

\* C1: under a valid constraint set, every subtask that rescheduleTasks or the
\* fallback plan's scheduling pass has placed starts at an hour in
\* [startHour, endHour) and on a day of daysOfWeek.
C1_StartsInWorkingWindow ==
    (phase = "done" /\ ValidConstraints(req.constraints)) =>
        \A i \in 1..Len(result) : InWorkingWindow(result[i], req.constraints)

C9_PassTerminates ==
    /\ phase # "hung"
    /\ (phase = "done" /\ req.op = "fallback") => Len(result) > 0

----------------------------------------------------------------------------
(* Claims about a planning request *)

PlanRequest == req.endpoint \in PlanEndpoints

\* the task rows of one member, by the task_assignees rows
TasksOfMember(m) ==
    {db.task_assignees[i].task_id :
        i \in {k \in 1..Len(db.task_assignees) : db.task_assignees[k].member_id = m}}

MemberIds == {db.task_assignees[i].member_id : i \in 1..Len(db.task_assignees)}

Overlap(a, b) == a.planned_start < b.planned_end /\ b.planned_start < a.planned_end

\* C4: whichever path produced the plan, the rows a planning request has
\* persisted carry slots given by the scheduler: no two tasks of one member
\* overlap, and every planned start lies in the working hours and on a
\* working day of the (valid) constraints.
C4_PersistedPlanIsScheduled ==
    (PlanRequest /\ status = 201 /\ ValidConstraints(EffectiveConstraints(req.body.constraints))) =>
        /\ \A m \in MemberIds : \A i, j \in TasksOfMember(m) :
              i # j => ~Overlap(db.tasks[i], db.tasks[j])
        /\ \A i \in 1..Len(db.tasks) :
              InWorkingWindow([start |-> db.tasks[i].planned_start],
                              EffectiveConstraints(req.body.constraints))

\* the provider failed: there is no API key, or callGemini or the structure
\* check of validateAndRepairPlan raised
ProviderFailed ==
    \/ ~provider.apiKey
    \/ provider.outcome.kind \in FailureKinds

\* C5: for every kind of provider failure generatePlan raises nothing and
\* returns: the request is never left running, and what it answers is
\* exactly the fallback plan of the same input.
C5_FailureYieldsFallback ==
    (PlanRequest /\ ValidPlanBody(req.body) /\ ProviderFailed) =>
        /\ phase # "hung"
        /\ phase = "responded" =>
              /\ status = 201
              /\ result = generateFallbackPlan(PlanningInput(req.body)).tasks

\* C6: a planning request whose provider never answers still gets its
\* response: the provider call times out and the fallback plan is returned.
C6_SilentProviderTimesOut ==
    (phase = "awaiting" /\ provider.silent) ~> (phase = "responded")

\* the request breaks a precondition the claim names
BreaksPrecondition(b) ==
    \/ Len(b.members) = 0
    \/ b.parts < 1
    \/ b.title = ""
    \/ ~b.dueDate.given
    \/ ~b.dueDate.valid
    \/ b.dueDate.t < now

\* C7: a planning request with zero members, parts < 1, no title, no due date
\* or a due date that is invalid or past is answered 400 and has no side
\* effect: no row is written, in or out of a transaction, and the provider is
\* not called.
C7_InvalidRequestHasNoEffect ==
    (PlanRequest /\ BreaksPrecondition(req.body)) =>
        /\ db = NoRows
        /\ txn = NoRows
        /\ ~provider.called
        /\ result = <<>>
        /\ phase \in {"received", "responded"}
        /\ phase = "responded" => status = 400

C7_Witness ==
    /\ PlanRequest
    /\ phase = "responded"
    /\ status = 400
    /\ Len(req.body.members) = 0
    /\ req.body.title # ""
    /\ req.body.parts >= 1
    /\ provider.apiKey

\* C8: constraints with startHour >= endHour or an empty daysOfWeek are
\* rejected before any planning or scheduling: no plan is produced from them,
\* nothing is persisted, and the call is not left running.
C8_InvalidConstraintsRejected ==
    LET c == EffectiveConstraints(req.body.constraints)
    IN (c.startHour >= c.endHour \/ c.daysOfWeek = {}) =>
          /\ result = <<>>
          /\ db = NoRows
          /\ phase # "hung"
          /\ phase = "responded" => status = 400

----------------------------------------------------------------------------
(* Claims about the workload balancer *)

MaxOf(S) == CHOOSE x \in S : \A y \in S : y <= x
MinOf(S) == CHOOSE x \in S : \A y \in S : x <= y

\* the total each member of the input holds after balancing (0 for a member
\* that was handed nothing)
BalancedTotals ==
    {MinutesOf(result, m) : m \in Assignees(req.body.subtasks)}

LargestSubtask ==
    MaxOf({req.body.subtasks[i].estimatedMinutes : i \in 1..Len(req.body.subtasks)})

\* C10: after balanceWorkload on a non-empty subtask list, the largest and the
\* smallest total of estimatedMinutes held by a member of the input differ by
\* at most the estimatedMinutes of the largest subtask.
C10_BalancedWithinLargestSubtask ==
    (phase = "responded" /\ status = 200
        /\ req.endpoint = "POST /api/ai/balance-workload") =>
        MaxOf(BalancedTotals) - MinOf(BalancedTotals) <= LargestSubtask

----------------------------------------------------------------------------
(* Claims about the feasibility report *)

FeasibilityDone == phase = "done" /\ req.op = "feasibility"

\* C11: with the subtasks, the constraints, the member count and the clock
\* fixed, a later due date never has fewer available hours, and a plan that
\* is feasible for the earlier due date is feasible for the later one.
C11_FeasibilityMonotone ==
    FeasibilityDone =>
        /\ report.second.availableHours >= report.first.availableHours
        /\ report.first.feasible => report.second.feasible

\* the days, from tomorrow on, whose startHour:00 lies before the due date
\* and that are days of daysOfWeek
WorkingDaysBetween(dueDate, c) ==
    Cardinality({k \in 0..Max(DayOf(dueDate), 0) :
                    /\ TomorrowAt(c.startHour) + k * 1440 < dueDate
                    /\ DowOf(TomorrowAt(c.startHour) + k * 1440) \in c.daysOfWeek})

RECURSIVE SumOfMinutes(_, _)
SumOfMinutes(subtasks, n) ==
    IF n = 0 THEN 0 ELSE subtasks[n].estimatedMinutes + SumOfMinutes(subtasks, n - 1)

\* C12: the report holds requiredHours = (sum of estimatedMinutes) / 60,
\* availableHours = hoursPerWorkDay (endHour - startHour) x working days
\* between tomorrow and the due date x memberCount, and feasible exactly when
\* requiredHours <= 0.8 x availableHours; 10,000 minutes due tomorrow with one
\* member and an 8-hour day are not feasible.
C12_FeasibilityReport ==
    FeasibilityDone =>
        LET c == req.constraints
            sum == SumOfMinutes(req.subtasks, Len(req.subtasks))
            hoursPerWorkDay == c.endHour - c.startHour
            available == hoursPerWorkDay * WorkingDaysBetween(req.d2, c) * req.memberCount
        IN /\ report.second.requiredMinutes = sum
           /\ report.second.availableHours = available
           /\ report.second.feasible <=> (sum * 5 <= 4 * available * 60)
           /\ (sum >= 10000 /\ req.d2 < 2 * 1440 /\ req.memberCount = 1
                  /\ hoursPerWorkDay = 8) => ~report.second.feasible

C12_Witness ==
    /\ FeasibilityDone
    /\ SumOfMinutes(req.subtasks, Len(req.subtasks)) = 10000
    /\ req.d2 = 1440 + 1439
    /\ req.memberCount = 1
    /\ req.constraints.startHour = 9 /\ req.constraints.endHour = 17
    /\ req.constraints.workHoursPerDay = 8
    /\ report.second.availableHours = 8
    /\ ~report.second.feasible

----------------------------------------------------------------------------
(* Claims about the repair of a candidate list *)

RepairDone == phase = "done" /\ req.op = "repair"

\* a valid Subtask of the data model whose assignee is a member: part >= 1, a
\* title, details, estimatedMinutes >= 1, and a schedule that is there (both
\* timestamps parse) or absent
WellFormed(subtask, input) ==
    /\ subtask.part >= 1
    /\ subtask.title.kind # "None"
    /\ subtask.details.text # ""
    /\ subtask.assignee \in memberNames(input)
    /\ subtask.estimatedMinutes >= 1
    /\ subtask.start.ok = subtask.end.ok

AllWellFormed ==
    /\ Len(req.subtasks) > 0
    /\ \A i \in 1..Len(req.subtasks) : WellFormed(req.subtasks[i], req.input)

Scheduled(subtask) == subtask.start.ok /\ subtask.end.ok

\* field by field the same; the timestamps denote the same instants
SameSubtasks(candidates, repaired) ==
    /\ Len(candidates) = Len(repaired)
    /\ \A i \in 1..Len(candidates) :
          /\ candidates[i].part = repaired[i].part
          /\ candidates[i].title = repaired[i].title
          /\ candidates[i].details = repaired[i].details
          /\ candidates[i].assignee = repaired[i].assignee
          /\ candidates[i].estimatedMinutes = repaired[i].estimatedMinutes
          /\ candidates[i].start.t = repaired[i].start
          /\ candidates[i].end.t = repaired[i].end

\* C13 as stated: repair returns a well-formed list identical to the list it
\* was given (and so repairing again changes nothing).
C13_RepairIsIdentity ==
    (RepairDone /\ AllWellFormed) =>
        /\ req.subtasks = AsCandidates(result)
        /\ report.again = result

\* C13 as amended: repairing a well-formed list twice gives what repairing it
\* once gives; a well-formed list whose subtasks all carry their schedule
\* comes back field by field the same, its timestamps the same instants, and
\* identical when the timestamps were in ISO form.
C13_RepairIdempotent ==
    (RepairDone /\ AllWellFormed) =>
        /\ report.again = result
        /\ (\A i \in 1..Len(req.subtasks) : Scheduled(req.subtasks[i])) =>
              SameSubtasks(req.subtasks, result)
        /\ (\A i \in 1..Len(req.subtasks) :
                req.subtasks[i].start.iso /\ req.subtasks[i].end.iso) =>
              req.subtasks = AsCandidates(result)

C13_Witness ==
    /\ RepairDone
    /\ AllWellFormed
    /\ Len(req.subtasks) = 2
    /\ req.subtasks[1] # req.subtasks[2]
    /\ \A i \in 1..2 : req.subtasks[i].start.iso /\ req.subtasks[i].end.iso
    /\ req.subtasks = AsCandidates(result)

\* C14: the repaired assignee of the candidate at index i is the assignee it
\* came with when that is exactly a member's name, else
\* members[i mod len(members)].name; so it always is a member's name.
C14_RepairedAssignee ==
    RepairDone =>
        \A i \in 1..Len(req.subtasks) :
            LET members == req.input.members
                names == {members[k].name : k \in 1..Len(members)}
            IN /\ req.subtasks[i].assignee \in names =>
                      result[i].assignee = req.subtasks[i].assignee
               /\ req.subtasks[i].assignee \notin names =>
                      result[i].assignee = members[((i - 1) % Len(members)) + 1].name
               /\ result[i].assignee \in names

C14_Witness ==
    /\ RepairDone
    /\ Len(req.input.members) = 2
    /\ req.input.members[1].name = "Bob" /\ req.input.members[2].name = "Carol"
    /\ Len(req.subtasks) = 2
    /\ req.subtasks[1].assignee = "Unknown Person" /\ result[1].assignee = "Bob"
    /\ req.subtasks[2].assignee = "Unknown Person" /\ result[2].assignee = "Carol"

----------------------------------------------------------------------------
(* Claims about the fallback plan of the scenario *)

\* parts = 1, the single member Alice, title "X", constraints
\* {workHoursPerDay 8, startHour 9, endHour 17, daysOfWeek Mon-Fri}
FallbackScenario ==
    /\ phase = "done"
    /\ req.op = "fallback"
    /\ req.parts = 1
    /\ req.title = "X"
    /\ req.members = <<[name |-> "Alice", role |-> ""]>>
    /\ req.constraints = [workHoursPerDay |-> 8, startHour |-> 9, endHour |-> 17,
                          daysOfWeek |-> 1..5]

\* the task at position i is the template's, for part 1 and Alice
IsTemplateTask(task, i) ==
    /\ task.part = 1
    /\ task.title = PartTitle(1, taskTemplates[((i - 1) % 6) + 1].title)
    /\ task.estimatedMinutes = taskTemplates[((i - 1) % 6) + 1].minutes
    /\ task.assignee = "Alice"

\* starts and ends between 09:00 and 17:00 of one weekday
WithinNineToFive(task) ==
    /\ DowOf(task.start) \in 1..5
    /\ AtHour(task.start, 9) <= task.start
    /\ task.end <= AtHour(task.start, 17)

\* C15 as stated: the scenario yields exactly 2 subtasks, "Part 1: Research
\* and Planning" (120) and "Part 1: Analysis and Investigation" (180), both
\* Alice's, the second starting at least 15 minutes after the first ends, both
\* within 09:00-17:00 on a weekday.
C15_ScenarioYieldsTwoSubtasks ==
    FallbackScenario =>
        /\ Len(result) = 2
        /\ \A i \in 1..Len(result) : IsTemplateTask(result[i], i)
        /\ result[2].start >= result[1].end + 15
        /\ \A i \in 1..Len(result) : WithinNineToFive(result[i])

\* C15 as amended: the scenario yields exactly 8 subtasks, the six templates
\* in order and then the first two again, all Alice's, each starting at
\* least 15 minutes after the one before it ends and at an hour in [9, 17)
\* of a weekday; the first two are the two the claim names and lie within
\* 09:00-17:00.
C15_ScenarioYieldsEightSubtasks ==
    FallbackScenario =>
        /\ Len(result) = 8
        /\ \A i \in 1..8 : IsTemplateTask(result[i], i)
        /\ \A i \in 2..8 : result[i].start >= result[i - 1].end + 15
        /\ \A i \in 1..8 : InWorkingWindow(result[i], req.constraints)
        /\ result[1].estimatedMinutes = 120 /\ result[2].estimatedMinutes = 180
        /\ WithinNineToFive(result[1]) /\ WithinNineToFive(result[2])

C15_Witness ==
    /\ FallbackScenario
    /\ Len(result) = 8
    /\ result[1].title = PartTitle(1, "Research and Planning")
    /\ result[2].title = PartTitle(1, "Analysis and Investigation")
    /\ result[2].start = result[1].end + 15

----------------------------------------------------------------------------
(* Claims about Scheduler.rescheduleTasks *)

RescheduleDone == phase = "done" /\ req.op = "reschedule"

\* a subtask without its schedule
Unscheduled(task) ==
    [part |-> task.part, title |-> task.title, details |-> task.details,
     assignee |-> task.assignee, estimatedMinutes |-> task.estimatedMinutes]

CopiesOf(task, subtasks) ==
    Cardinality({i \in 1..Len(subtasks) : Unscheduled(subtasks[i]) = Unscheduled(task)})

\* C16: rescheduleTasks returns exactly one scheduled copy of every input
\* subtask, none dropped, duplicated or refused, whatever the due date, with
\* part, title, details, assignee and estimatedMinutes unchanged.
C16_NeverRefusesASubtask ==
    RescheduleDone =>
        /\ Len(result) = Len(req.subtasks)
        /\ \A i \in 1..Len(req.subtasks) :
              CopiesOf(req.subtasks[i], result) = CopiesOf(req.subtasks[i], req.subtasks)

\* two subtasks come back, one placed after dueDate - 1 day and one after
\* the due date
C16_Witness ==
    /\ RescheduleDone
    /\ Len(req.subtasks) = 2
    /\ Len(result) = 2
    /\ req.dueDate = 2 * 1440 + 480
    /\ result[1].start > req.dueDate - 1440
    /\ result[2].start > req.dueDate

-----------------------------------------------------------------------------
(* SpecPair: two planning requests through the one aiPlanner. req, phase and
   result hold one entry for each request. A request is suspended at await
   fetch (phase "awaiting") until its provider call settles; everything
   between two awaits runs without interruption. provider.memberSchedules is
   the cursor map of the last scheduling pass as the pass left it, and
   provider.log the passes that ran, each with the requests that were
   suspended at the time. *)

PairInputs ==
    [title : {"X"}, description : {""}, parts : 1..MaxParts,
     members : { <<[name |-> "Alice", role |-> ""]>>,
                 <<[name |-> "Alice", role |-> "Design"], [name |-> "Bob", role |-> "Research"]>> },
     dueDate : {14 * 1440},
     constraints : {[workHoursPerDay |-> 8, startHour |-> 9, endHour |-> 17, daysOfWeek |-> d] :
                       d \in {1..5, {}}}]

PairOutcomes ==
    {[kind |-> "request_error", subtasks |-> <<>>]}
    \cup {[kind |-> "plan", subtasks |-> <<c>>] : c \in RawCandidates}

PairRequests == [input : PairInputs, outcome : PairOutcomes]

TakesFallback(r) == CallGeminiThrows(r.outcome) \/ RepairThrows(r.outcome)

\* the cursor map once the pass has scheduled tasks, ms being the map at entry
RECURSIVE LeftSchedules(_, _)
LeftSchedules(ms, tasks) ==
    IF tasks = <<>> THEN ms
    ELSE LeftSchedules(
             IF SkipsTask(Head(tasks)) THEN ms
             ELSE SetSchedule(ms, Head(tasks).assignee, FallbackCursor(Head(tasks).end)),
             Tail(tasks))

InitPair ==
    /\ now = 600
    /\ todayDow = 1
    /\ req \in [1..2 -> PairRequests]
    /\ phase = [i \in 1..2 |-> "received"]
    /\ result = [i \in 1..2 |-> <<>>]
    /\ status = 0
    /\ report = NoReport
    /\ provider = [apiKey |-> TRUE, memberSchedules |-> NoSchedules, log |-> <<>>]
    /\ txn = NoRows
    /\ db = NoRows

\* a scheduling pass that never ends keeps the thread: nothing else runs
ThreadFree == \A i \in 1..2 : phase[i] # "hung"

\* generatePlan of request i up to await fetch
PairCallProvider(i) ==
    /\ ThreadFree
    /\ phase[i] = "received"
    /\ provider.apiKey
    /\ phase' = [phase EXCEPT ![i] = "awaiting"]
    /\ UNCHANGED <<now, todayDow, req, result, status, report, provider, txn, db>>

\* the await of request i settles and generatePlan runs to its return
PairProviderAnswers(i) ==
    /\ ThreadFree
    /\ phase[i] = "awaiting"
    /\ LET plan == PlanFromAnswer(req[i].outcome, req[i].input)
       IN /\ result' = [result EXCEPT ![i] = plan.tasks]
          /\ phase' = [phase EXCEPT ![i] = IF plan.hung THEN "hung" ELSE "done"]
          /\ provider' =
                IF TakesFallback(req[i])
                THEN [provider EXCEPT
                         !.memberSchedules = LeftSchedules(memberSchedules, plan.tasks),
                         !.log = Append(@, [by |-> i,
                                            suspended |-> {j \in 1..2 : phase[j] = "awaiting"} \ {i}])]
                ELSE provider
    /\ UNCHANGED <<now, todayDow, req, status, report, txn, db>>

NextPair == \E i \in 1..2 : PairCallProvider(i) \/ PairProviderAnswers(i)

SpecPair == InitPair /\ [][NextPair]_vars

-----------------------------------------------------------------------------
(* SpecTasks: the router of routes/tasks.ts, mounted at /api/tasks, serving
   one GET request. A path is the sequence of its segments below the mount
   point, a segment the sequence of its characters. *)

Workload == <<"w", "o", "r", "k", "l", "o", "a", "d">>

ByStatus == <<"b", "y", "-", "s", "t", "a", "t", "u", "s">>

Digits == {"0", "1", "2", "3", "4", "5", "6", "7", "8", "9"}

DigitValue(ch) ==
    CASE ch = "0" -> 0 [] ch = "1" -> 1 [] ch = "2" -> 2 [] ch = "3" -> 3
      [] ch = "4" -> 4 [] ch = "5" -> 5 [] ch = "6" -> 6 [] ch = "7" -> 7
      [] ch = "8" -> 8 [] ch = "9" -> 9

NaN == [nan |-> TRUE, n |-> 0]

\* the value of the digits text starts with, acc holding the digits read
RECURSIVE LeadingDigits(_, _, _)
LeadingDigits(text, acc, any) ==
    IF text # <<>> /\ Head(text) \in Digits
    THEN LeadingDigits(Tail(text), acc * 10 + DigitValue(Head(text)), TRUE)
    ELSE IF any THEN [nan |-> FALSE, n |-> acc] ELSE NaN

\* parseInt(text, 10): an optional sign, then the longest run of digits; what
\* follows the digits is ignored, and no digit at all gives NaN
parseInt(text) ==
    IF text # <<>> /\ Head(text) = "-"
    THEN LET positive == LeadingDigits(Tail(text), 0, FALSE)
         IN IF positive.nan THEN NaN ELSE [nan |-> FALSE, n |-> 0 - positive.n]
    ELSE LeadingDigits(text, 0, FALSE)

Literal(text) == [param |-> FALSE, text |-> text]

Param == [param |-> TRUE, text |-> <<>>]

\* the routes in the order router.get / router.patch register them
Routes ==
    << [method |-> "GET", path |-> <<>>],
       [method |-> "GET", path |-> <<Literal(ByStatus)>>],
       [method |-> "GET", path |-> <<Param>>],
       [method |-> "PATCH", path |-> <<Param>>],
       [method |-> "GET", path |-> <<Literal(ByStatus)>>],
       [method |-> "GET", path |-> <<Literal(Workload)>>] >>

ListRoute == 1
ByStatusRoute == 2
TaskRoute == 3
WorkloadRoute == 6

\* a route matches a request of its method whose path has its segments: a
\* literal segment matches itself, a parameter any non-empty segment
Matches(route, method, path) ==
    /\ route.method = method
    /\ Len(route.path) = Len(path)
    /\ \A k \in 1..Len(path) :
          IF route.path[k].param THEN path[k] # <<>>
          ELSE route.path[k].text = path[k]

\* the router calls the first matching route; no handler of this router
\* calls next(), so no later route sees the request. 0: no route matches
Dispatch(method, path) ==
    LET matching == {k \in 1..Len(Routes) : Matches(Routes[k], method, path)}
    IN IF matching = {} THEN 0
       ELSE CHOOSE k \in matching : \A j \in matching : k <= j

Body(error, data) == [error |-> error, data |-> data]

NoResponse == [handler |-> 0, body |-> Body("", <<>>)]

\* the ids of ids as a list in the order of ORDER BY planned_start,
\* part_number, created_at (rows of equal keys in the order of insertion)
ListBefore(i, j) ==
    LET a == db.tasks[i]
        b == db.tasks[j]
    IN \/ a.planned_start < b.planned_start
       \/ a.planned_start = b.planned_start /\ a.part_number < b.part_number
       \/ a.planned_start = b.planned_start /\ a.part_number = b.part_number /\ i <= j

RECURSIVE ListOrder(_)
ListOrder(ids) ==
    IF ids = {} THEN <<>>
    ELSE LET first == CHOOSE i \in ids : \A j \in ids : ListBefore(i, j)
         IN <<first>> \o ListOrder(ids \ {first})

\* ORDER BY status_id, part_number, created_at
StatusBefore(i, j) ==
    LET a == db.tasks[i]
        b == db.tasks[j]
    IN \/ a.status_id < b.status_id
       \/ a.status_id = b.status_id /\ a.part_number < b.part_number
       \/ a.status_id = b.status_id /\ a.part_number = b.part_number /\ i <= j

RECURSIVE StatusOrder(_)
StatusOrder(ids) ==
    IF ids = {} THEN <<>>
    ELSE LET first == CHOOSE i \in ids : \A j \in ids : StatusBefore(i, j)
         IN <<first>> \o StatusOrder(ids \ {first})

TaskRecord(i) == [id |-> i, row |-> db.tasks[i]]

TaskRecords(order) == [k \in 1..Len(order) |-> TaskRecord(order[k])]

\* GET /: without filters, every task
ListTasks == TaskRecords(ListOrder(1..Len(db.tasks)))

\* GET /by-status: the tasks grouped under the three statuses
TasksByStatus ==
    LET tasks == TaskRecords(StatusOrder(1..Len(db.tasks)))
    IN << [NotStarted |-> SelectSeq(tasks, LAMBDA t : t.row.status_id = 1),
           Ongoing |-> SelectSeq(tasks, LAMBDA t : t.row.status_id = 2),
           Completed |-> SelectSeq(tasks, LAMBDA t : t.row.status_id = 3)] >>

\* GET /:id of a stored task: the task, its assignees and its calendar event
TaskDetails(taskId) ==
    << [task |-> TaskRecord(taskId),
        assignees |-> SelectSeq(db.task_assignees, LAMBDA a : a.task_id = taskId),
        calendarEvent |-> SelectSeq(db.calendar_events, LAMBDA e : e.task_id = taskId)] >>

RECURSIVE SumEstimated(_)
SumEstimated(ids) ==
    IF ids = {} THEN 0
    ELSE LET i == CHOOSE x \in ids : TRUE
         IN db.tasks[i].estimated_minutes + SumEstimated(ids \ {i})

\* GET /workload: one row for every team member, with the count of the
\* member's tasks, the counts by status and the sum of the estimated minutes
WorkloadSummary ==
    [m \in 1..db.team_members |->
        LET mine == {db.task_assignees[k].task_id :
                        k \in {x \in 1..Len(db.task_assignees) :
                                  db.task_assignees[x].member_id = m}}
        IN [id |-> m,
            assigned_tasks |-> Cardinality(mine),
            not_started_tasks |-> Cardinality({i \in mine : db.tasks[i].status_id = 1}),
            ongoing_tasks |-> Cardinality({i \in mine : db.tasks[i].status_id = 2}),
            completed_tasks |-> Cardinality({i \in mine : db.tasks[i].status_id = 3}),
            total_estimated_minutes |-> SumEstimated(mine)]]

\* the response of the handler of route k: its status and its body
HandlerResponse(k, path, dbFails) ==
    CASE k = ListRoute ->
            IF dbFails THEN [status |-> 500, body |-> Body("Failed to fetch tasks", <<>>)]
            ELSE [status |-> 200, body |-> Body("", ListTasks)]
      [] k = ByStatusRoute ->
            IF dbFails
            THEN [status |-> 500, body |-> Body("Failed to fetch tasks by status", <<>>)]
            ELSE [status |-> 200, body |-> Body("", TasksByStatus)]
      [] k = TaskRoute ->
            LET taskId == parseInt(path[1])
            IN IF taskId.nan
               THEN [status |-> 400, body |-> Body("Invalid task ID", <<>>)]
               ELSE IF dbFails
               THEN [status |-> 500, body |-> Body("Failed to fetch task details", <<>>)]
               ELSE IF taskId.n \notin 1..Len(db.tasks)
               THEN [status |-> 404, body |-> Body("Task not found", <<>>)]
               ELSE [status |-> 200, body |-> Body("", TaskDetails(taskId.n))]
      [] k = WorkloadRoute ->
            IF dbFails
            THEN [status |-> 500, body |-> Body("Failed to fetch workload data", <<>>)]
            ELSE [status |-> 200, body |-> Body("", WorkloadSummary)]
      [] OTHER -> [status |-> 404, body |-> Body("", <<>>)]

MaxStoredTasks == 2

StoredSubtasks ==
    [title : {"Task"}, details : {""}, part : {1, 2}, estimatedMinutes : {60, 120},
     assignee : {"Alice", "Bob"}, start : {1440 + 540}, end : {1440 + 660}]

StoredMembers == <<[name |-> "Alice", role |-> ""], [name |-> "Bob", role |-> ""]>>

\* the tables after one assignment of the two members was created
StoredRows ==
    {InsertSubtasks([NoRows EXCEPT !.teams = 1, !.team_members = Len(StoredMembers),
                                   !.assignments = 1],
                    subtasks, [members |-> StoredMembers], 0) :
        subtasks \in SeqsUpTo(StoredSubtasks, MaxStoredTasks)}

TaskPaths ==
    { <<>>, <<ByStatus>>, <<Workload>>, <<<<"1">>>>, <<<<"2">>>>, <<<<"7">>>>,
      <<<<"1", "2">>>>, <<<<"1", "w">>>>, <<<<"w", "1">>>>, <<<<"-", "1">>>>,
      <<<<"1">>, Workload>> }

TaskRequests ==
    [op : {"tasks"}, method : {"GET"}, path : TaskPaths, dbFails : BOOLEAN]

InitTasks ==
    /\ now = 600
    /\ todayDow = 0
    /\ req \in TaskRequests
    /\ phase = "received"
    /\ result = <<>>
    /\ status = 0
    /\ report = NoResponse
    /\ provider = NoProvider
    /\ txn = NoRows
    /\ db \in StoredRows

\* the router serves the request: the first matching route's handler answers
ServeTasksRequest ==
    /\ phase = "received"
    /\ LET k == Dispatch(req.method, req.path)
           response == HandlerResponse(k, req.path, req.dbFails)
       IN /\ status' = response.status
          /\ report' = [handler |-> k, body |-> response.body]
    /\ phase' = "responded"
    /\ UNCHANGED <<now, todayDow, req, result, provider, txn, db>>

NextTasks == ServeTasksRequest

SpecTasks == InitTasks /\ [][NextTasks]_vars

-----------------------------------------------------------------------------
(* SpecPatch: PATCH /api/tasks/:id requests, one after the other, on the
   tables a created assignment left *)

PatchRoute == 4

NoText == [given |-> FALSE, v |-> ""]

\* String.prototype.trim on the titles the model sends
Trim(text) ==
    CASE text = "  Renamed " -> "Renamed"
      [] text = "   "        -> ""
      [] OTHER               -> text

\* the rows after UPDATE tasks SET ... WHERE id = taskId and, when
\* estimated_minutes is given, UPDATE calendar_events SET end = start + minutes
\* for the events of the task
UpdatedRows(rows, taskId, updates) ==
    LET task == rows.tasks[taskId]
        updated ==
            [task EXCEPT
                !.status_id = IF updates.status_id.given THEN updates.status_id.v ELSE @,
                !.title = IF updates.title.given THEN Trim(updates.title.v) ELSE @,
                !.details = IF updates.details.given THEN updates.details.v ELSE @,
                !.estimated_minutes =
                    IF updates.estimated_minutes.given THEN updates.estimated_minutes.v ELSE @]
        events == rows.calendar_events
    IN [rows EXCEPT
           !.tasks = [@ EXCEPT ![taskId] = updated],
           !.calendar_events =
               IF updates.estimated_minutes.given
               THEN [k \in 1..Len(events) |->
                        IF events[k].task_id = taskId
                        THEN [events[k] EXCEPT
                                 !.end = events[k].start + updates.estimated_minutes.v]
                        ELSE events[k]]
               ELSE events]

\* the PATCH handler: its status, its body and the rows it leaves
PatchResponse(path, updates, dbFails) ==
    LET taskId == parseInt(path[1])
        refused(code, error) == [status |-> code, body |-> Body(error, <<>>), rows |-> db]
    IN IF taskId.nan THEN refused(400, "Invalid task ID")
       ELSE IF updates.status_id.given /\ updates.status_id.v \notin {1, 2, 3}
       THEN refused(400, "Status ID must be 1 (Not Started), 2 (Ongoing), or 3 (Completed)")
       ELSE IF updates.estimated_minutes.given /\ updates.estimated_minutes.v < 1
       THEN refused(400, "Estimated minutes must be at least 1")
       ELSE IF dbFails THEN refused(500, "Failed to update task")
       ELSE IF taskId.n \notin 1..Len(db.tasks) THEN refused(404, "Task not found")
       ELSE IF ~(updates.status_id.given \/ updates.title.given \/ updates.details.given
                    \/ updates.estimated_minutes.given)
       THEN refused(400, "No valid update fields provided")
       ELSE LET rows == UpdatedRows(db, taskId.n, updates)
            IN [status |-> 200,
                body |-> Body("", <<[id |-> taskId.n, row |-> rows.tasks[taskId.n]]>>),
                rows |-> rows]

MaxPatchTasks == 2

PatchSubtasks ==
    [title : {"Task"}, details : {""}, part : {1}, estimatedMinutes : {60, 120},
     assignee : {"Alice"}, start : {1440 + 540}, end : {1440 + 660}]

\* the tables after POST /api/assignments stored a plan for the two members
PatchRows ==
    {InsertSubtasks([NoRows EXCEPT !.teams = 1, !.team_members = Len(StoredMembers),
                                   !.assignments = 1],
                    subtasks, [members |-> StoredMembers], 0) :
        subtasks \in SeqsUpTo(PatchSubtasks, MaxPatchTasks)}

PatchUpdates ==
    [status_id : {NoField, Field(2), Field(5)},
     estimated_minutes : {NoField, Field(30), Field(0)},
     title : {NoText}, details : {NoText}]
    \cup [status_id : {NoField}, estimated_minutes : {NoField},
          title : {Field("  Renamed ")}, details : {NoText, Field("More")}]

PatchRequests ==
    [op : {"tasks"}, method : {"PATCH"},
     path : {<<<<"1">>>>, <<<<"2">>>>, <<<<"7">>>>, <<Workload>>},
     body : PatchUpdates, dbFails : BOOLEAN]

InitPatch ==
    /\ now = 600
    /\ todayDow = 0
    /\ req \in PatchRequests
    /\ phase = "received"
    /\ result = <<>>
    /\ status = 0
    /\ report = NoResponse
    /\ provider = NoProvider
    /\ txn = NoRows
    /\ db \in PatchRows

\* the router serves the PATCH request
PatchTask ==
    /\ phase = "received"
    /\ LET k == Dispatch(req.method, req.path)
           response == IF k = PatchRoute THEN PatchResponse(req.path, req.body, req.dbFails)
                       ELSE [status |-> 404, body |-> Body("", <<>>), rows |-> db]
       IN /\ status' = response.status
          /\ report' = [handler |-> k, body |-> response.body]
          /\ db' = response.rows
    /\ phase' = "responded"
    /\ UNCHANGED <<now, todayDow, req, result, provider, txn>>

\* the next request arrives
NextPatchRequest ==
    /\ phase = "responded"
    /\ req' \in PatchRequests
    /\ phase' = "received"
    /\ status' = 0
    /\ report' = NoResponse
    /\ UNCHANGED <<now, todayDow, result, provider, txn, db>>

NextPatch == PatchTask \/ NextPatchRequest

SpecPatch == InitPatch /\ [][NextPatch]_vars

\* nextWorkingSlot as the claim words it: the hour clamped into the working
\* hours, then day by day, at startHour:00:00, while the day is no working day
RECURSIVE NextWorkingDay(_, _)
NextWorkingDay(slot, c) ==
    IF DowOf(slot) \in c.daysOfWeek THEN slot
    ELSE NextWorkingDay(DayOf(slot) * 1440 + 1440 + c.startHour * 60, c)

NextWorkingSlot(slot, c) ==
    NextWorkingDay(
        IF HourOf(slot) < c.startHour THEN DayOf(slot) * 1440 + c.startHour * 60
        ELSE IF HourOf(slot) >= c.endHour
             THEN DayOf(slot) * 1440 + 1440 + c.startHour * 60
             ELSE slot,
        c)

\* the cursor of the assignee of result[i] when result[i] is placed: tomorrow
\* at startHour:00:00, or 15 minutes after the end of the member's previous
\* subtask
CursorBefore(i) ==
    LET earlier == {j \in 1..(i - 1) : result[j].assignee = result[i].assignee}
    IN IF earlier = {} THEN 1440 + req.constraints.startHour * 60
       ELSE result[CHOOSE j \in earlier : \A k \in earlier : k <= j].end + 15

\* C20: under a valid constraint set every subtask of rescheduleTasks starts
\* exactly at nextWorkingSlot(cursor of its assignee) and runs its
\* estimatedMinutes from there, never deferred or split for ending after
\* endHour.
C20_StartsAtNextWorkingSlot ==
    (RescheduleDone /\ ValidConstraints(req.constraints)) =>
        \A i \in 1..Len(result) :
            /\ result[i].start = NextWorkingSlot(CursorBefore(i), req.constraints)
            /\ result[i].end = result[i].start + result[i].estimatedMinutes

\* C18: a GET request to /api/tasks/workload is answered by the workload
\* handler with the member workload summary, not by the handler of GET /:id.
C18_WorkloadServedByWorkloadHandler ==
    (req.op = "tasks" /\ phase = "responded" /\ req.method = "GET"
        /\ req.path = <<Workload>>) =>
        /\ report.handler = WorkloadRoute
        /\ ~req.dbFails => (status = 200 /\ report.body.data = WorkloadSummary)

\* the subtasks of a list with their slots, as a set
SlotsOf(subtasks) == {subtasks[i] : i \in 1..Len(subtasks)}

\* C19: the slots the fallback decomposer gives its subtasks are the slots
\* Scheduler.rescheduleTasks gives the same subtasks for the same due date,
\* constraints and clock: every subtask has the same start and end in both.
C19_FallbackSlotsAreSchedulerSlots ==
    (phase = "done" /\ req.op = "fallback" /\ ValidConstraints(req.constraints)) =>
        SlotsOf(result) = SlotsOf(rescheduleTasks(result, req.dueDate, req.constraints))

-----------------------------------------------------------------------------
(* Claims about concurrent planning requests *)

\* what request i returns when it is the only request the planner has seen:
\* the repaired provider plan, or the fallback plan scheduled from an empty
\* cursor map
PlanAlone(i) ==
    IF TakesFallback(req[i])
    THEN ScheduleLoop(assignMembersToTasks(
                          FallbackSubtasks(1, TasksPerPart(req[i].input.parts), req[i].input),
                          req[i].input.members),
                      NoSchedules, <<>>, req[i].input.constraints).tasks
    ELSE validateAndRepairPlan(req[i].outcome.subtasks, req[i].input)

-----------------------------------------------------------------------------
(* Claims about the order rescheduleTasks places subtasks in *)

\* C21: rescheduleTasks places subtasks by part ascending and estimatedMinutes
\* descending: of two subtasks of one assignee, the one of the lower part never
\* starts later, and within one part the longer one never starts later.
C21_PlacedInSortOrder ==
    RescheduleDone =>
        \A i, j \in 1..Len(result) :
            (result[i].assignee = result[j].assignee
                /\ \/ result[i].part < result[j].part
                   \/ /\ result[i].part = result[j].part
                      /\ result[i].estimatedMinutes > result[j].estimatedMinutes)
            => result[i].start <= result[j].start

\* the caller lists a short subtask before a longer one of the same part and
\* assignee, and the longer one has been placed first
C21_Witness ==
    /\ RescheduleDone
    /\ Len(req.subtasks) = 2
    /\ req.subtasks[1].assignee = req.subtasks[2].assignee
    /\ req.subtasks[1].part = req.subtasks[2].part
    /\ req.subtasks[1].estimatedMinutes < req.subtasks[2].estimatedMinutes
    /\ Len(result) = 2
    /\ result[1].estimatedMinutes > result[2].estimatedMinutes
    /\ result[1].start < result[2].start

-----------------------------------------------------------------------------
(* Claims about the walk of balanceWorkload *)

\* the running total of name m when the subtask at position k is considered:
\* m's total in the input plus the minutes of the subtasks handed to m so far
RunningTotal(m, k) ==
    MinutesOf(req.body.subtasks, m) + MinutesOf(SubSeq(result, 1, k - 1), m)

\* C22: balanceWorkload walks the subtasks in their original order and hands
\* each one to the name whose running total is smallest at that moment, the
\* subtask's minutes being added to that name's total before the next one.
C22_HandedToLeastLoaded ==
    (phase = "responded" /\ status = 200
        /\ req.endpoint = "POST /api/ai/balance-workload") =>
        /\ Len(result) = Len(req.body.subtasks)
        /\ \A k \in 1..Len(result) :
              /\ result[k].estimatedMinutes = req.body.subtasks[k].estimatedMinutes
              /\ \A m \in Assignees(req.body.subtasks) :
                    RunningTotal(result[k].assignee, k) <= RunningTotal(m, k)

-----------------------------------------------------------------------------
(* Claims about the subtasks the fallback decomposer generates *)

Archetypes ==
    <<"Research and Planning", "Analysis and Investigation", "Development and Creation",
      "Review and Testing", "Documentation", "Finalization">>

CanonicalMinutes == <<120, 180, 240, 90, 60, 60>>

FallbackDone == phase = "done" /\ req.op = "fallback"

\* C23: for every parts >= 1 the fallback plan holds parts * max(2,
\* floor(8/parts)) subtasks; the i-th subtask (from 0) of part p is titled
\* "Part p: " followed by archetype i mod 6 and carries that archetype's
\* canonical minutes.
C23_FallbackSubtasksByTemplate ==
    FallbackDone =>
        LET perPart == IF 8 \div req.parts >= 2 THEN 8 \div req.parts ELSE 2
        IN /\ Len(result) = req.parts * perPart
           /\ \A p \in 1..req.parts : \A i \in 0..(perPart - 1) :
                 LET task == result[(p - 1) * perPart + i + 1]
                 IN /\ task.part = p
                    /\ task.title = [kind |-> "Part", n |-> p, text |-> Archetypes[(i % 6) + 1]]
                    /\ task.estimatedMinutes = CanonicalMinutes[(i % 6) + 1]

\* one part of eight subtasks, the seventh and eighth back at the first two
\* archetypes; and five parts, where floor(8/parts) is 1 and two are made
C23_Witness ==
    /\ FallbackDone
    /\ \/ /\ req.parts = 1
          /\ Len(result) = 8
          /\ result[7].title.text = "Research and Planning"
          /\ result[8].estimatedMinutes = 180
       \/ /\ req.parts = ManyParts
          /\ Len(result) = 2 * ManyParts
          /\ result[2 * ManyParts].part = ManyParts

-----------------------------------------------------------------------------
(* Claims about the assignees of the fallback plan *)

\* the role -> keyword table as the specification lists it
RoleKeywords(role) ==
    CASE role = "Research" -> {"research", "analysis", "investigation"}
      [] role = "Writing"  -> {"documentation", "creation", "development"}
      [] role = "Review"   -> {"review", "testing", "finalization"}
      [] role = "Analysis" -> {"analysis", "investigation", "research"}
      [] role = "Design"   -> {"development", "creation", "planning"}
      [] OTHER -> {}

\* the keywords occurring in the title plus details of a subtask
KeywordsOfTask(task) ==
    KeywordsIn(task.title.text) \cup KeywordsIn(task.details.text)
        \cup KeywordsIn(task.details.for)

\* the positions of the members whose role has a keyword occurring in task
MatchingMembers(task) ==
    {k \in 1..Len(req.members) :
        RoleKeywords(req.members[k].role) \cap KeywordsOfTask(task) # {}}

\* C24: in the fallback plan the subtask at index i is assigned to the first
\* member, in list order, whose role has a keyword occurring in the subtask's
\* title plus details, and to members[i mod len(members)] when no member
\* matches; the assignee is always a member name.
C24_RoleMatchElseRoundRobin ==
    FallbackDone =>
        \A i \in 0..(Len(result) - 1) :
            LET task == result[i + 1]
                matching == MatchingMembers(task)
            IN /\ task.assignee \in {req.members[k].name : k \in 1..Len(req.members)}
               /\ task.assignee =
                     IF matching # {}
                     THEN req.members[CHOOSE k \in matching : \A j \in matching : k <= j].name
                     ELSE req.members[(i % Len(req.members)) + 1].name

\* one plan in which a role match takes a subtask away from the member whose
\* turn it is and a subtask nobody matches goes to the second member by its
\* index
C24_Witness ==
    /\ FallbackDone
    /\ Len(req.members) = 2
    /\ \E i \in 0..(Len(result) - 1) :
          /\ MatchingMembers(result[i + 1]) # {}
          /\ result[i + 1].assignee # req.members[(i % 2) + 1].name
    /\ \E i \in 0..(Len(result) - 1) :
          /\ MatchingMembers(result[i + 1]) = {}
          /\ i % 2 = 1
          /\ result[i + 1].assignee = req.members[2].name

-----------------------------------------------------------------------------
(* Claims about the values repair returns *)

\* C25: every subtask repair returns has scheduled.end = scheduled.start +
\* estimatedMinutes on the repaired values, whether start and end were
\* provided or defaulted and whatever the raw estimatedMinutes was.
C25_RepairedEndIsStartPlusMinutes ==
    RepairDone =>
        \A i \in 1..Len(result) :
            result[i].end = result[i].start + result[i].estimatedMinutes

\* C26: for every candidate list, parts and estimatedMinutes that are zero or
\* negative included, repair returns a list of the same length whose every
\* subtask has part >= 1 (a defaulted part in 1..parts) and estimatedMinutes
\* >= 1 (the provided value if > 0, else 60).
C26_RepairedPartAndMinutes ==
    RepairDone =>
        /\ Len(result) = Len(req.subtasks)
        /\ \A i \in 1..Len(result) :
              /\ result[i].part >= 1
              /\ req.subtasks[i].part = 0 => result[i].part \in 1..req.input.parts
              /\ result[i].estimatedMinutes >= 1
              /\ result[i].estimatedMinutes =
                    IF req.subtasks[i].estimatedMinutes > 0
                    THEN req.subtasks[i].estimatedMinutes ELSE 60

-----------------------------------------------------------------------------
(* Claims about the plan a created assignment holds *)

\* C27: generatePlan returns a non-empty subtask list for every accepted
\* input, whatever the provider returns, an empty plan.subtasks array
\* included: a created assignment always has at least one task.
C27_CreatedAssignmentHasATask ==
    (PlanRequest /\ phase = "responded" /\ status = 201) =>
        /\ Len(result) >= 1
        /\ Len(db.tasks) >= 1

-----------------------------------------------------------------------------
(* Claims about tasks and their calendar events *)

\* C28: after any sequence of create-assignment and PATCH /api/tasks/:id
\* operations every task's planned_start and planned_end equal the start and
\* end of its calendar event, also after a PATCH that changes
\* estimated_minutes.
C28_TaskAgreesWithCalendarEvent ==
    \A k \in 1..Len(db.calendar_events) :
        LET event == db.calendar_events[k]
        IN event.task_id \in 1..Len(db.tasks) =>
              /\ db.tasks[event.task_id].planned_start = event.start
              /\ db.tasks[event.task_id].planned_end = event.end

-----------------------------------------------------------------------------
(* Claims about the constraints of a request *)

\* the caller supplies all four fields, with values valid under the data model
SuppliesValidConstraints(cb) ==
    /\ cb.workHoursPerDay.given /\ cb.workHoursPerDay.v > 0
    /\ cb.startHour.given /\ cb.startHour.v \in 0..23
    /\ cb.endHour.given /\ cb.endHour.v \in 0..23
    /\ cb.startHour.v < cb.endHour.v
    /\ cb.daysOfWeek.given /\ cb.daysOfWeek.v # {} /\ cb.daysOfWeek.v \subseteq 0..6

SuppliedConstraints(cb) ==
    [workHoursPerDay |-> cb.workHoursPerDay.v, startHour |-> cb.startHour.v,
     endHour |-> cb.endHour.v, daysOfWeek |-> cb.daysOfWeek.v]

\* C29: when the caller supplies all four constraint fields with valid values,
\* planning and scheduling use exactly the supplied constraints: the response
\* is the one computed from them.
C29_SuppliedConstraintsAreUsed ==
    (phase = "responded" /\ SuppliesValidConstraints(req.body.constraints)) =>
        LET c == SuppliedConstraints(req.body.constraints)
        IN /\ (req.endpoint = "POST /api/ai/reschedule" /\ status = 200) =>
                 /\ result = rescheduleTasks(req.body.subtasks, req.body.dueDate.t, c)
                 /\ report = validateScheduleFeasibility(
                                 result, req.body.dueDate.t, c,
                                 Cardinality(Assignees(req.body.subtasks)))
           /\ (PlanRequest /\ status = 201) =>
                 LET input == [PlanningInput(req.body) EXCEPT !.constraints = c]
                 IN result = (IF provider.called THEN PlanFromAnswer(provider.outcome, input)
                              ELSE generateFallbackPlan(input)).tasks

\* C30: workHoursPerDay has no effect on any result of the core: two runs of
\* rescheduleTasks, of the fallback plan or of validateScheduleFeasibility that
\* differ only in workHoursPerDay return the same schedule, the same plan and
\* the same feasibility report.
C30_WorkHoursPerDayHasNoEffect ==
    (phase # "idle" /\ req.otherHours # req.constraints.workHoursPerDay) =>
        /\ req.op \in {"reschedule", "fallback"} => result[1] = result[2]
        /\ req.op = "feasibility" => report.first = report.second

\* a feasibility report over a window with working days in it, so that the
\* capacity is not 0 and the day's hours decide it
C30_Witness ==
    /\ phase = "done"
    /\ req.op = "feasibility"
    /\ req.otherHours # req.constraints.workHoursPerDay
    /\ report.first.availableHours > 0
    /\ report.first.feasible

====
